---- MODULE Spec2Model ----
(***************************************************************************)
(* Token lifecycle and request dispatch of the Samplify API client         *)
(* (lib/client.go): NewClient, the facade methods, GetAuth,                *)
(* requestAndParseResponse, request and requestAndParseToken.              *)
(*                                                                         *)
(* A client is shared by the goroutines in Callers.  Every network call    *)
(* blocks its goroutine, so a call is split at its network round trips and *)
(* at the two separate writes of c.Auth (json.Unmarshal, then Acquired).   *)
(* The code takes no lock: the interleavings of these steps are the        *)
(* outcomes of its unsynchronised accesses to c.Auth.                      *)
(***************************************************************************)
EXTENDS Integers, Sequences, FiniteSets, TLC

(* ---------------------------- bounds ----------------------------------- *)
MaxCalls == 2
MaxTime == 2

(* ------------------------- program constants --------------------------- *)
defaultAuthURL == "https://api.researchnow.com/auth/v1/token/password"
defaultAPIBaseURL == "https://api.researchnow.com/sample/v1"
StatusUnauthorized == 401

(* seconds by which a token is treated as expired before its server expiry *)
Margin == 1

(* ------------------------- inputs of the model ------------------------- *)
Callers == {"g1", "g2"}

(* the goroutine that owns the client when it is not shared *)
Main == "g1"

(* the *ClientOptions argument of NewClient: <<>> is nil, <<o>> is &o *)
OptionInputs ==
    { <<>>,
      << [APIBaseURL |-> "", AuthURL |-> ""] >>,
      << [APIBaseURL |-> "https://stage.example/sample/v1",
          AuthURL |-> "https://stage.example/auth/v1/token/password"] >> }

ClientIDs == {"client-id"}
Usernames == {"user"}
Passwords == {"secret"}

(* facade methods: name, HTTP method, path, request body (<<>> is nil) *)
Facade ==
    { [name |-> "CreateProject", method |-> "POST", path |-> "/projects",
       body |-> <<"project">>],
      [name |-> "GetFeasibility", method |-> "GET",
       path |-> "/projects/p1/feasibility", body |-> <<>>] }

NoRequest == [name |-> "", method |-> "", path |-> "", body |-> <<>>]

(* what the servers may answer *)
ApiCodes == {200, 401, 403, 500}
AuthCodes == {200, 401}
ExpiryValues == {2, 3}
(* response bodies of the resource API: "bad" does not parse as JSON *)
ApiBodies == {"bad", "PROCESSING", "READY"}

(* ------------------------------ values --------------------------------- *)
ZeroToken == [AccessToken |-> 0, ExpiresIn |-> 0, Acquired |-> <<>>]

NoErr == [type |-> "nil", HTTPCode |-> 0, src |-> 0]

NoAuthBody == [valid |-> FALSE, tok |-> "absent", tokv |-> 0,
               exp |-> "absent", expv |-> 0]

PendingResp == [state |-> "pending", code |-> 0, body |-> "", abody |-> NoAuthBody]

NilAr == [isNil |-> TRUE, Body |-> ""]

EmptyRes == "empty"

NoRet == [returned |-> FALSE, err |-> NoErr, res |-> EmptyRes, auth |-> ZeroToken]

(* --------------------------- pure functions ---------------------------- *)

(* TokenResponse.AccessTokenExpired at time t *)
AccessTokenExpired(auth, t) ==
    \/ auth.Acquired = <<>>
    \/ auth.Acquired[1] + (auth.ExpiresIn - Margin) <= t

(* sendRequest: the (ar, err) pair it returns for a server response; idx    *)
(* identifies the network call the error comes from                        *)
SendResult(resp, idx) ==
    IF resp.state = "transport"
    THEN [ar |-> NilAr, err |-> [type |-> "transport", HTTPCode |-> 0, src |-> idx]]
    ELSE IF resp.code < 200 \/ resp.code >= 300
    THEN [ar |-> [isNil |-> FALSE, Body |-> resp.body],
          err |-> [type |-> "ErrorResponse", HTTPCode |-> resp.code, src |-> idx]]
    ELSE [ar |-> [isNil |-> FALSE, Body |-> resp.body], err |-> NoErr]

(* a parse that does not store what the body says *)
UnmarshalNotVerbatim(body, resObj) ==
    IF body \in ApiBodies \ {"bad"}
    THEN [failed |-> FALSE, obj |-> "READY"]
    ELSE [failed |-> TRUE, obj |-> resObj]

(* json.Unmarshal(ar.Body, &resObj): a body that does not parse leaves the *)
(* object alone and is an error                                            *)
Unmarshal(body, resObj) ==
    IF body \in ApiBodies \ {"bad"}
    THEN [failed |-> FALSE, obj |-> body]
    ELSE [failed |-> TRUE, obj |-> resObj]

(* json.Unmarshal(ar.Body, &c.Auth): invalid JSON changes nothing; a field  *)
(* missing from the body keeps its value; a field of the wrong JSON type   *)
(* is skipped and reported after the other fields were stored              *)
UnmarshalAuth(abody, auth) ==
    IF ~abody.valid
    THEN [failed |-> TRUE, auth |-> auth]
    ELSE [failed |-> abody.tok = "badtype" \/ abody.exp = "badtype",
          auth |-> [auth EXCEPT
                      !.AccessToken = IF abody.tok = "ok" THEN abody.tokv ELSE @,
                      !.ExpiresIn = IF abody.exp = "ok" THEN abody.expv ELSE @]]

(* NewClient that takes the defaults whatever options it is given *)
NewClientAlwaysDefault(clientID, username, password, opts) ==
    [Credentials |-> [ClientID |-> clientID, Username |-> username,
                      Password |-> password],
     Auth |-> ZeroToken,
     Options |-> [APIBaseURL |-> defaultAPIBaseURL, AuthURL |-> defaultAuthURL]]

(* NewClient *)
NewClient(clientID, username, password, opts) ==
    [Credentials |-> [ClientID |-> clientID, Username |-> username,
                      Password |-> password],
     Auth |-> ZeroToken,
     Options |-> IF opts = <<>>
                 THEN [APIBaseURL |-> defaultAPIBaseURL, AuthURL |-> defaultAuthURL]
                 ELSE opts[1]]

(* request acquiring a token on every call / on no call *)
NeedsTokenAlways(auth, t) == TRUE

NeedsTokenNever(auth, t) == FALSE

(* request: the condition under which a token is acquired before sending *)
NeedsToken(auth, t) == AccessTokenExpired(auth, t)

(* the 401 test without the comparison of the status code *)
IsUnauthorizedAnyCode(err) == err.type = "ErrorResponse"

(* request: err is an *ErrorResponse with HTTPCode == http.StatusUnauthorized *)
IsUnauthorized(err) ==
    err.type = "ErrorResponse" /\ err.HTTPCode = StatusUnauthorized

(* request without the 401 branch / with the 401 branch after every send *)
AfterSendNoRetry(attempt, err) == "return"

AfterSendEveryTime(attempt, err) ==
    IF err.type = "ErrorResponse" /\ err.HTTPCode = StatusUnauthorized
    THEN "reacquire" ELSE "return"

(* request: what follows the answer to resource request number attempt:    *)
(* only the first sendRequest is followed by the 401 test, the second is   *)
(* returned as it is                                                       *)
AfterSend(attempt, err) ==
    IF attempt = 1 /\ IsUnauthorized(err) THEN "reacquire" ELSE "return"

(* request ignoring the error of requestAndParseToken *)
AfterTokenIgnoreErr(err) == "send"

(* request: what follows requestAndParseToken *)
AfterToken(err) ==
    IF err # NoErr THEN "return" ELSE "send"

(* request returning the response of the first attempt with the error *)
TokenFailureKeepsAr(ar, err) == [ar |-> ar, err |-> err]

(* request: the (ar, err) it returns when requestAndParseToken failed; ar  *)
(* is the response of the first sendRequest when there was one             *)
TokenFailure(ar, err) == [ar |-> NilAr, err |-> err]

(* requestAndParseResponse dropping the error of the parse of a 2xx body *)
requestAndParseResponseSwallow(ar, err, resObj, idx) ==
    IF err # NoErr
    THEN [err |-> err,
          res |-> IF ~ar.isNil THEN Unmarshal(ar.Body, resObj).obj ELSE resObj]
    ELSE [err |-> NoErr, res |-> Unmarshal(ar.Body, resObj).obj]

(* requestAndParseResponse returning the error of the secondary parse *)
requestAndParseResponseParseErr(ar, err, resObj, idx) ==
    IF err # NoErr
    THEN IF ~ar.isNil /\ Unmarshal(ar.Body, resObj).failed
         THEN [err |-> [type |-> "json", HTTPCode |-> 0, src |-> idx], res |-> resObj]
         ELSE [err |-> err,
               res |-> IF ~ar.isNil THEN Unmarshal(ar.Body, resObj).obj ELSE resObj]
    ELSE LET u == Unmarshal(ar.Body, resObj)
         IN  IF u.failed
             THEN [err |-> [type |-> "json", HTTPCode |-> 0, src |-> idx],
                   res |-> u.obj]
             ELSE [err |-> NoErr, res |-> u.obj]

(* requestAndParseResponse, given what request returned; idx identifies the *)
(* response whose body is parsed                                           *)
requestAndParseResponse(ar, err, resObj, idx) ==
    IF err # NoErr
    THEN [err |-> err,
          res |-> IF ~ar.isNil THEN Unmarshal(ar.Body, resObj).obj ELSE resObj]
    ELSE LET u == Unmarshal(ar.Body, resObj)
         IN  IF u.failed
             THEN [err |-> [type |-> "json", HTTPCode |-> 0, src |-> idx],
                   res |-> u.obj]
             ELSE [err |-> NoErr, res |-> u.obj]

(* GetAuth handing out the cached token when the acquisition failed *)
GetAuthResultCached(err, auth) == [auth |-> auth, err |-> err]

(* GetAuth: what it returns, given the error of requestAndParseToken and   *)
(* c.Auth                                                                  *)
GetAuthResult(err, auth) ==
    [auth |-> IF err # NoErr THEN ZeroToken ELSE auth, err |-> err]

(* requestAndParseToken clearing the password once a token was obtained *)
StampedScrubbing(client, t) ==
    [client EXCEPT !.Auth.Acquired = <<t>>, !.Credentials.Password = ""]

(* requestAndParseToken: c.Auth.Acquired = &t, as a change of the client *)
Stamped(client, t) == [client EXCEPT !.Auth.Acquired = <<t>>]

(* ------------------------------- state --------------------------------- *)
VARIABLES
    options,      \* the options argument NewClient was called with
    Credentials,  \* c.Credentials
    Options,      \* c.Options
    Auth,         \* c.Auth
    now,          \* the clock read by time.Now()
    issued,       \* number of tokens the auth server has handed out
    ncalls,       \* number of calls started on the client
    pc,           \* per goroutine: where its call stands
    kind,         \* per goroutine: "facade" or "getauth"
    chk,          \* per goroutine: what AccessTokenExpired said at the start
    req,          \* per goroutine: the facade request of the call
    log,          \* per goroutine: the network calls of the call, in order
    tloc,         \* per goroutine: the local t of requestAndParseToken
    ret           \* per goroutine: what the call returned

vars == <<options, Credentials, Options, Auth, now, issued, ncalls,
          pc, kind, chk, req, log, tloc, ret>>

(* ------------------------------ helpers -------------------------------- *)
AcqEntry ==
    [kind |-> "acq", host |-> Options.AuthURL, method |-> "POST", path |-> "",
     token |-> 0,
     body |-> <<Credentials.ClientID, Credentials.Username, Credentials.Password>>,
     resp |-> PendingResp]

ResEntry(r, token) ==
    [kind |-> "res", host |-> Options.APIBaseURL, method |-> r.method,
     path |-> r.path, token |-> token, body |-> r.body, resp |-> PendingResp]

WithAnswer(l, resp) == [l EXCEPT ![Len(l)].resp = resp]

ResCount(l) == Cardinality({i \in 1..Len(l) : l[i].kind = "res"})

AtRest(g) == pc[g] = "idle"

(* no call is at its return: a return is taken before any other step *)
Quiet == \A h \in Callers : pc[h] # "done"

(* the responses a server can give *)
ApiResponses ==
    {[state |-> "transport", code |-> 0, body |-> "", abody |-> NoAuthBody]}
    \cup {[state |-> "http", code |-> k, body |-> b, abody |-> NoAuthBody] :
            k \in ApiCodes, b \in ApiBodies}

(* bodies of the auth endpoint: not JSON; the empty object; an object with *)
(* both fields; an object with one field of the wrong JSON type            *)
AuthBodyShapes ==
    { <<"absent", "absent">>, <<"ok", "ok">>, <<"badtype", "ok">>,
      <<"ok", "badtype">> }

AuthBodies ==
    {NoAuthBody}
    \cup {[valid |-> TRUE, tok |-> sh[1],
           tokv |-> IF sh[1] = "ok" THEN issued + 1 ELSE 0,
           exp |-> sh[2], expv |-> IF sh[2] = "ok" THEN ev ELSE 0] :
            sh \in AuthBodyShapes, ev \in ExpiryValues}

AuthResponses ==
    {[state |-> "transport", code |-> 0, body |-> "", abody |-> NoAuthBody]}
    \cup {[state |-> "http", code |-> k, body |-> "", abody |-> NoAuthBody] :
            k \in AuthCodes \ {200}}
    \cup {[state |-> "http", code |-> 200, body |-> "", abody |-> ab] :
            ab \in AuthBodies}

(* the answers considered when goroutines overlap: fewer of each kind *)
ConcApiResponses ==
    {r \in ApiResponses : r.state = "http" /\ r.code \in {200, 401}
                          /\ r.body = (IF r.code = 200 THEN "READY" ELSE "bad")}

ConcAuthResponses ==
    {r \in AuthResponses :
        \/ r.state = "transport"
        \/ /\ r.code = 200 /\ r.abody.valid
           /\ r.abody.tok = "ok" /\ r.abody.exp = "ok" /\ r.abody.expv = 2}

(* ------------------------------ actions -------------------------------- *)
Init ==
    /\ options \in OptionInputs
    /\ \E id \in ClientIDs, u \in Usernames, p \in Passwords :
         LET c == NewClient(id, u, p, options)
         IN  /\ Credentials = c.Credentials
             /\ Auth = c.Auth
             /\ Options = c.Options
    /\ now = 0
    /\ issued = 0
    /\ ncalls = 0
    /\ pc = [g \in Callers |-> "idle"]
    /\ kind = [g \in Callers |-> "none"]
    /\ chk = [g \in Callers |-> "none"]
    /\ req = [g \in Callers |-> NoRequest]
    /\ log = [g \in Callers |-> <<>>]
    /\ tloc = [g \in Callers |-> 0]
    /\ ret = [g \in Callers |-> NoRet]

(* time passes *)
Tick ==
    /\ Quiet
    /\ now < MaxTime
    /\ now' = now + 1
    /\ UNCHANGED <<options, Credentials, Options, Auth, issued, ncalls,
                   pc, kind, chk, req, log, tloc, ret>>

(* a facade method is called: requestAndParseResponse -> request, up to the *)
(* first network call (the token acquisition or the resource request)      *)
Call(g, r, serial) ==
    /\ Quiet
    /\ AtRest(g)
    /\ serial => g = Main
    /\ ncalls < MaxCalls
    /\ ncalls' = ncalls + 1
    /\ kind' = [kind EXCEPT ![g] = "facade"]
    /\ req' = [req EXCEPT ![g] = r]
    /\ ret' = [ret EXCEPT ![g] = NoRet]
    /\ chk' = [chk EXCEPT ![g] = IF AccessTokenExpired(Auth, now)
                                 THEN "expired" ELSE "valid"]
    /\ IF NeedsToken(Auth, now)
       THEN /\ tloc' = [tloc EXCEPT ![g] = now]
            /\ log' = [log EXCEPT ![g] = <<AcqEntry>>]
            /\ pc' = [pc EXCEPT ![g] = "acqwait"]
       ELSE /\ tloc' = [tloc EXCEPT ![g] = 0]
            /\ log' = [log EXCEPT ![g] = <<ResEntry(r, Auth.AccessToken)>>]
            /\ pc' = [pc EXCEPT ![g] = "reswait"]
    /\ UNCHANGED <<options, Credentials, Options, Auth, now, issued>>

(* GetAuth is called: requestAndParseToken up to its network call *)
GetAuth(g, serial) ==
    /\ Quiet
    /\ AtRest(g)
    /\ serial => g = Main
    /\ ncalls < MaxCalls
    /\ ncalls' = ncalls + 1
    /\ kind' = [kind EXCEPT ![g] = "getauth"]
    /\ req' = [req EXCEPT ![g] = NoRequest]
    /\ ret' = [ret EXCEPT ![g] = NoRet]
    /\ chk' = [chk EXCEPT ![g] = IF AccessTokenExpired(Auth, now)
                                 THEN "expired" ELSE "valid"]
    /\ tloc' = [tloc EXCEPT ![g] = now]
    /\ log' = [log EXCEPT ![g] = <<AcqEntry>>]
    /\ pc' = [pc EXCEPT ![g] = "acqwait"]
    /\ UNCHANGED <<options, Credentials, Options, Auth, now, issued>>

(* the call of g returns err (and, for a facade call, ar) to its caller *)
Finish(g, ar, err, idx, auth) ==
    /\ pc' = [pc EXCEPT ![g] = "done"]
    /\ IF kind[g] = "getauth"
       THEN ret' = [ret EXCEPT ![g] =
                      [returned |-> TRUE, err |-> GetAuthResult(err, auth).err,
                       res |-> EmptyRes,
                       auth |-> GetAuthResult(err, auth).auth]]
       ELSE LET out == requestAndParseResponse(ar, err, EmptyRes, idx)
            IN  ret' = [ret EXCEPT ![g] =
                          [returned |-> TRUE, err |-> out.err, res |-> out.res,
                           auth |-> ZeroToken]]

(* request goes on after requestAndParseToken returned err *)
Proceed(g, err, idx, auth, l) ==
    IF AfterToken(err) = "return"
    THEN LET ar == IF \E i \in 1..Len(l) : l[i].kind = "res"
                   THEN SendResult(l[Len(l) - 1].resp, Len(l) - 1).ar
                   ELSE NilAr
         IN  /\ Finish(g, TokenFailure(ar, err).ar, TokenFailure(ar, err).err,
                       idx, auth)
             /\ log' = [log EXCEPT ![g] = l]
    ELSE /\ log' = [log EXCEPT ![g] = Append(l, ResEntry(req[g], auth.AccessToken))]
         /\ pc' = [pc EXCEPT ![g] = "reswait"]
         /\ ret' = ret

(* the auth endpoint answers: requestAndParseToken from the return of      *)
(* sendRequest to the end of json.Unmarshal                                *)
AcqRespond(g, answers) ==
    /\ Quiet
    /\ pc[g] = "acqwait"
    /\ \E resp \in answers :
         LET idx == Len(log[g])
             answered == WithAnswer(log[g], resp)
             sr == SendResult(resp, idx)
             u == UnmarshalAuth(resp.abody, Auth)
             err == IF sr.err # NoErr THEN sr.err
                    ELSE IF u.failed
                    THEN [type |-> "json", HTTPCode |-> 0, src |-> idx]
                    ELSE NoErr
         IN  /\ issued' = IF resp.abody.tok = "ok" THEN issued + 1 ELSE issued
             /\ Auth' = IF sr.err # NoErr THEN Auth ELSE u.auth
             /\ IF err = NoErr
                THEN /\ pc' = [pc EXCEPT ![g] = "stamp"]
                     /\ log' = [log EXCEPT ![g] = answered]
                     /\ ret' = ret
                ELSE IF kind[g] = "getauth"
                THEN /\ Finish(g, NilAr, err, idx, Auth')
                     /\ log' = [log EXCEPT ![g] = answered]
                ELSE Proceed(g, err, idx, Auth', answered)
    /\ UNCHANGED <<options, Credentials, Options, now, ncalls, kind, chk, req, tloc>>

(* requestAndParseToken stores the acquisition time and returns nil; GetAuth *)
(* returns c.Auth, request goes on to send the resource request            *)
Stamp(g) ==
    /\ Quiet
    /\ pc[g] = "stamp"
    /\ LET c == Stamped([Credentials |-> Credentials, Auth |-> Auth,
                         Options |-> Options], tloc[g])
       IN  /\ Auth' = c.Auth
           /\ Credentials' = c.Credentials
           /\ Options' = c.Options
    /\ IF kind[g] = "getauth"
       THEN /\ Finish(g, NilAr, NoErr, Len(log[g]), Auth')
            /\ log' = log
       ELSE Proceed(g, NoErr, Len(log[g]), Auth', log[g])
    /\ UNCHANGED <<options, now, issued, ncalls, kind, chk, req, tloc>>

(* the resource API answers: request from the return of sendRequest on *)
ResRespond(g, answers) ==
    /\ Quiet
    /\ pc[g] = "reswait"
    /\ \E resp \in answers :
         LET answered == WithAnswer(log[g], resp)
             idx == Len(log[g])
             sr == SendResult(resp, idx)
         IN  IF AfterSend(ResCount(log[g]), sr.err) = "reacquire"
             THEN /\ log' = [log EXCEPT ![g] = Append(answered, AcqEntry)]
                  /\ tloc' = [tloc EXCEPT ![g] = now]
                  /\ pc' = [pc EXCEPT ![g] = "acqwait"]
                  /\ ret' = ret
             ELSE /\ log' = [log EXCEPT ![g] = answered]
                  /\ tloc' = tloc
                  /\ Finish(g, sr.ar, sr.err, idx, Auth)
    /\ UNCHANGED <<options, Credentials, Options, Auth, now, issued, ncalls,
                   kind, chk, req>>

(* the call returns to its caller: its locals are gone *)
Return(g) ==
    /\ pc[g] = "done"
    /\ pc' = [pc EXCEPT ![g] = "idle"]
    /\ kind' = [kind EXCEPT ![g] = "none"]
    /\ chk' = [chk EXCEPT ![g] = "none"]
    /\ req' = [req EXCEPT ![g] = NoRequest]
    /\ log' = [log EXCEPT ![g] = <<>>]
    /\ tloc' = [tloc EXCEPT ![g] = 0]
    /\ ret' = [ret EXCEPT ![g] = NoRet]
    /\ UNCHANGED <<options, Credentials, Options, Auth, now, issued, ncalls>>

NextConc ==
    \/ Tick
    \/ \E g \in Callers, r \in Facade : Call(g, r, FALSE)
    \/ \E g \in Callers : GetAuth(g, FALSE)
    \/ \E g \in Callers : AcqRespond(g, ConcAuthResponses)
    \/ \E g \in Callers : Stamp(g)
    \/ \E g \in Callers : ResRespond(g, ConcApiResponses)
    \/ \E g \in Callers : Return(g)

SpecConc == Init /\ [][NextConc]_vars

(* the client used by one goroutine, one call after the other *)
Next ==
    \/ Tick
    \/ \E g \in Callers, r \in Facade : Call(g, r, TRUE)
    \/ \E g \in Callers : GetAuth(g, TRUE)
    \/ \E g \in Callers : AcqRespond(g, AuthResponses)
    \/ \E g \in Callers : Stamp(g)
    \/ \E g \in Callers : ResRespond(g, ApiResponses)
    \/ \E g \in Callers : Return(g)

Spec == Init /\ [][Next]_vars

(* ======================= properties of the client ====================== *)

(* reading a call's history *)
IsRes(e) == e.kind = "res"
IsAcq(e) == e.kind = "acq"
IsAnswered(e) == e.resp.state # "pending"
Is2xx(resp) == resp.state = "http" /\ resp.code >= 200 /\ resp.code < 300
Is401(e) == e.resp.state = "http" /\ e.resp.code = 401
ResIndexes(l) == {i \in 1..Len(l) : IsRes(l[i])}
AcqIndexes(l) == {i \in 1..Len(l) : IsAcq(l[i])}
FirstRes(l) == CHOOSE i \in ResIndexes(l) : \A j \in ResIndexes(l) : i <= j

(* an acquisition that gave requestAndParseToken no error *)
AcqSucceeded(e) ==
    /\ IsAcq(e) /\ Is2xx(e.resp)
    /\ e.resp.abody.valid
    /\ e.resp.abody.tok # "badtype" /\ e.resp.abody.exp # "badtype"

AcqFailed(e) == IsAcq(e) /\ IsAnswered(e) /\ ~AcqSucceeded(e)

(* the error value network call number i of a call yields when it fails *)
FailureOf(e, i) ==
    IF e.resp.state = "transport"
    THEN [type |-> "transport", HTTPCode |-> 0, src |-> i]
    ELSE IF ~Is2xx(e.resp)
    THEN [type |-> "ErrorResponse", HTTPCode |-> e.resp.code, src |-> i]
    ELSE [type |-> "json", HTTPCode |-> 0, src |-> i]

ResFailed(e) == IsRes(e) /\ IsAnswered(e) /\ ~Is2xx(e.resp)

FacadeCalls == {g \in Callers : kind[g] = "facade"}
FacadeDone == {g \in FacadeCalls : pc[g] = "done"}

(* the call of g had its first resource request answered with 401 *)
First401(g) == ResIndexes(log[g]) # {} /\ Is401(log[g][FirstRes(log[g])])

(* what was sent in resource request i is the facade request of the call *)
SameRequest(g, i) ==
    /\ log[g][i].method = req[g].method
    /\ log[g][i].path = req[g].path
    /\ log[g][i].body = req[g].body
    /\ log[g][i].host = Options.APIBaseURL

(* the call returned the outcome of resource request i *)
ReturnedOutcomeOf(g, i) ==
    IF ~Is2xx(log[g][i].resp)
    THEN ret[g].err = FailureOf(log[g][i], i)
    ELSE \/ ret[g].err = NoErr /\ ret[g].res = log[g][i].resp.body
         \/ ret[g].err = [type |-> "json", HTTPCode |-> 0, src |-> i]

(* C1, as stated: a call whose first resource request is answered with 401 *)
(* makes exactly one re-acquisition and exactly one retry of the same      *)
(* request, and returns the outcome of the retry.                          *)
C1_AsStated ==
    \A g \in FacadeDone :
        First401(g) =>
            LET l == log[g]
                f == FirstRes(l)
            IN  /\ Cardinality({i \in AcqIndexes(l) : i > f}) = 1
                /\ Cardinality(ResIndexes(l)) = 2
                /\ IsRes(l[Len(l)]) /\ SameRequest(g, Len(l))
                /\ ReturnedOutcomeOf(g, Len(l))

(* C1, amended: after a 401 on the first resource request the call makes   *)
(* exactly one re-acquisition; if it succeeds there is exactly one retry   *)
(* of the same request and the retry's outcome is returned, and if it      *)
(* fails there is no retry and the acquisition's error is returned.        *)
C1_RetryOnce ==
    \A g \in FacadeCalls :
        First401(g) =>
            LET l == log[g]
                f == FirstRes(l)
            IN  /\ AcqIndexes(l) \cap ((f + 1)..Len(l)) = {f + 1}
                /\ ResIndexes(l) \subseteq {f, f + 2}
                /\ pc[g] = "done" =>
                     IF AcqSucceeded(l[f + 1])
                     THEN /\ Len(l) = f + 2 /\ IsRes(l[f + 2])
                          /\ SameRequest(g, f) /\ SameRequest(g, f + 2)
                          /\ ReturnedOutcomeOf(g, f + 2)
                     ELSE /\ Len(l) = f + 1
                          /\ ret[g].err = FailureOf(l[f + 1], f + 1)

(* C1 witness: a 401, a successful re-acquisition and a retry that failed  *)
(* with 500, which is what the caller got                                  *)
C1_Witness ==
    \E g \in FacadeDone :
        /\ First401(g)
        /\ Len(log[g]) = FirstRes(log[g]) + 2
        /\ log[g][Len(log[g])].resp.code = 500
        /\ ret[g].err.HTTPCode = 500

(* C2: a call that starts with an unexpired cached token issues no         *)
(* acquisition before its resource request: its first network call is the *)
(* resource request, sent with the cached token.                           *)
C2_ReuseCachedToken ==
    \A g \in FacadeCalls :
        chk[g] = "valid" =>
            /\ log[g] # <<>> /\ IsRes(log[g][1])
            /\ Len(log[g]) = 1 => log[g][1].token = Auth.AccessToken

(* C2 witness: a finished call that started with a valid token *)
C2_Witness ==
    \E g \in FacadeDone : chk[g] = "valid" /\ IsRes(log[g][1]) /\ ret[g].err = NoErr

(* C3: a call that starts with a missing or expired token makes exactly    *)
(* one acquisition, completed, before its first resource request.          *)
C3_AcquireFirst ==
    \A g \in FacadeCalls :
        chk[g] = "expired" =>
            /\ log[g] # <<>> /\ IsAcq(log[g][1])
            /\ ResIndexes(log[g]) # {} =>
                 /\ FirstRes(log[g]) = 2
                 /\ IsAnswered(log[g][1])
                 /\ AcqSucceeded(log[g][1])
                 /\ AcqIndexes(log[g]) \cap (1..2) = {1}

(* C3 witness: both cases, a token never acquired and a token expired *)
C3_Witness ==
    \E g \in FacadeCalls :
        /\ chk[g] = "expired" /\ Len(log[g]) = 2 /\ IsRes(log[g][2])
        /\ Auth.Acquired # <<>> /\ issued >= 2

(* C4: a first resource request that fails with anything but a 401 is not  *)
(* followed by an acquisition or a retry, and its error is returned.       *)
C4_NoRetryOnOtherErrors ==
    \A g \in FacadeCalls :
        ResIndexes(log[g]) # {} =>
            LET l == log[g]
                f == FirstRes(l)
            IN  (IsAnswered(l[f]) /\ ~Is2xx(l[f].resp) /\ ~Is401(l[f])) =>
                   /\ Len(l) = f
                   /\ pc[g] = "done"
                   /\ ret[g].returned
                   /\ ret[g].err = FailureOf(l[f], f)

(* C4 witness: a 403 and a transport failure returned after one request *)
C4_Witness ==
    \E g \in FacadeDone :
        /\ Len(log[g]) = 1 /\ IsRes(log[g][1])
        /\ log[g][1].resp.code = 403 /\ ret[g].err.HTTPCode = 403

(* C5: when the acquisition at the start of a call fails, its error is     *)
(* returned as it is, the acquisition is not repeated and no resource      *)
(* request is sent.                                                        *)
C5_AcquisitionFailure ==
    \A g \in FacadeCalls :
        (log[g] # <<>> /\ AcqFailed(log[g][1])) =>
            /\ Len(log[g]) = 1
            /\ pc[g] = "done"
            /\ ret[g].returned
            /\ ret[g].err = FailureOf(log[g][1], 1)
            /\ ret[g].res = EmptyRes

(* C5 witness: the auth endpoint refused the credentials *)
C5_Witness ==
    \E g \in FacadeDone :
        /\ Len(log[g]) = 1 /\ IsAcq(log[g][1])
        /\ log[g][1].resp.code = 401
        /\ ret[g].err = [type |-> "ErrorResponse", HTTPCode |-> 401, src |-> 1]


(* C6, as stated: when the acquisition at the start of a call is answered  *)
(* with a successful status and a body without a parseable token field,    *)
(* the call returns a deserialization error and sends no resource request. *)
C6_NoTokenIsAnError ==
    \A g \in FacadeCalls :
        (/\ log[g] # <<>> /\ IsAcq(log[g][1]) /\ Is2xx(log[g][1].resp)
         /\ (~log[g][1].resp.abody.valid \/ log[g][1].resp.abody.tok # "ok")) =>
            /\ ResIndexes(log[g]) = {}
            /\ pc[g] = "done" =>
                 ret[g].err = [type |-> "json", HTTPCode |-> 0, src |-> 1]

(* C7, as stated: at most one goroutine is inside a token acquisition      *)
(* (request in flight or c.Auth being written) at any time.                *)
C7_OneAcquisitionAtATime ==
    Cardinality({g \in Callers : pc[g] \in {"acqwait", "stamp"}}) <= 1

(* the call of g had a token to send: it did not fail acquiring one *)
TokenAvailable(g) ==
    log[g] # <<>> /\ (IsRes(log[g][1]) \/ AcqSucceeded(log[g][1]))

(* C8: a facade call sends at most two resource requests; once a token is  *)
(* available it sends exactly one when the first is not answered with 401, *)
(* and exactly two when it is and the re-acquisition succeeds.             *)
C8_OneOrTwoRequests ==
    \A g \in FacadeCalls :
        LET l == log[g]
            n == Cardinality(ResIndexes(l))
        IN  /\ n <= 2
            /\ (pc[g] = "done" /\ TokenAvailable(g)) =>
                 /\ n >= 1
                 /\ ~First401(g) => n = 1
                 /\ (First401(g) /\ AcqSucceeded(l[FirstRes(l) + 1])) => n = 2
                 /\ (First401(g) /\ ~AcqSucceeded(l[FirstRes(l) + 1])) => n = 1

(* C8 witness: a call that needed both requests and succeeded *)
C8_Witness ==
    \E g \in FacadeDone :
        /\ Cardinality(ResIndexes(log[g])) = 2
        /\ ret[g].err = NoErr /\ ret[g].res # EmptyRes

DefaultOptions == [APIBaseURL |-> defaultAPIBaseURL, AuthURL |-> defaultAuthURL]

(* C9, as stated: a client built with no configuration or with one whose   *)
(* URL fields are not set has the default URLs; URLs given at construction *)
(* replace the defaults.                                                   *)
C9_AsStated ==
    IF options = <<>>
    THEN Options = DefaultOptions
    ELSE IF options[1].APIBaseURL = "" /\ options[1].AuthURL = ""
    THEN Options = DefaultOptions
    ELSE Options = options[1]

(* C9, amended: a client built with no configuration (nil) has the default *)
(* URLs; a configuration that is given is taken as it is, so its URLs      *)
(* replace the defaults and URL fields it leaves unset stay empty.         *)
C9_Defaults ==
    IF options = <<>>
    THEN Options = DefaultOptions
    ELSE Options = options[1]

(* C9 witness: a default client sending a resource request to the default  *)
(* base URL after acquiring its token at the default auth URL              *)
C9_Witness ==
    /\ options = <<>>
    /\ \E g \in FacadeCalls :
         /\ Len(log[g]) = 2
         /\ log[g][1].host = defaultAuthURL
         /\ log[g][2].host = defaultAPIBaseURL

IsHttpError(e) == e.resp.state = "http" /\ ~Is2xx(e.resp)

Parses(body) == body \in {"PROCESSING", "READY"}

(* C10, as stated: when a resource request is answered with a non-2xx      *)
(* status the call returns the structured error with that status, never a  *)
(* parse error and never nil, and the result object holds the body of the  *)
(* error response when it parses.                                          *)
C10_AsStated ==
    \A g \in FacadeDone :
        \A i \in ResIndexes(log[g]) :
            IsHttpError(log[g][i]) =>
                /\ ret[g].err = [type |-> "ErrorResponse",
                                 HTTPCode |-> log[g][i].resp.code, src |-> i]
                /\ ret[g].res = IF Parses(log[g][i].resp.body)
                                THEN log[g][i].resp.body ELSE EmptyRes

(* C10, amended: the same for every resource request except a first        *)
(* attempt answered with 401, which is retried and whose error and body    *)
(* are dropped.                                                            *)
C10_ErrorResponse ==
    \A g \in FacadeDone :
        \A i \in ResIndexes(log[g]) :
            (IsHttpError(log[g][i])
             /\ ~(i = FirstRes(log[g]) /\ Is401(log[g][i]))) =>
                /\ ret[g].err = [type |-> "ErrorResponse",
                                 HTTPCode |-> log[g][i].resp.code, src |-> i]
                /\ ret[g].res = IF Parses(log[g][i].resp.body)
                                THEN log[g][i].resp.body ELSE EmptyRes

(* C10 witness: a 500 whose body does not parse, and the 500 is returned *)
C10_Witness ==
    \E g \in FacadeDone :
        /\ IsRes(log[g][Len(log[g])])
        /\ log[g][Len(log[g])].resp.code = 500
        /\ log[g][Len(log[g])].resp.body = "bad"
        /\ ret[g].err.type = "ErrorResponse" /\ ret[g].err.HTTPCode = 500
        /\ ret[g].res = EmptyRes

(* C11: a resource request answered with a 2xx status whose body does not  *)
(* parse into the result makes the call return a deserialization error;    *)
(* nothing is sent after a 2xx answer, whether it parses or not.           *)
C11_ParseFailureIsAnError ==
    \A g \in FacadeCalls :
        \A i \in ResIndexes(log[g]) :
            Is2xx(log[g][i].resp) =>
                /\ i = Len(log[g])
                /\ pc[g] = "done" /\ ret[g].returned
                /\ ~Parses(log[g][i].resp.body) =>
                     /\ ret[g].err = [type |-> "json", HTTPCode |-> 0, src |-> i]
                     /\ ret[g].err # NoErr

(* C11 witness: a 200 with a body that is not JSON, after a valid token *)
C11_Witness ==
    \E g \in FacadeDone :
        /\ Len(log[g]) = 1 /\ IsRes(log[g][1])
        /\ log[g][1].resp.code = 200 /\ log[g][1].resp.body = "bad"
        /\ ret[g].err.type = "json"

(* C12: no step of the client changes its Credentials or its Options. *)
C12_Immutable ==
    [][Credentials' = Credentials /\ Options' = Options]_vars

(* C12 witness: the second call on the client went through a 401, a        *)
(* re-acquisition and a retry, and the credentials are those given to      *)
(* NewClient                                                               *)
C12_Witness ==
    /\ ncalls = 2 /\ issued >= 2
    /\ \E g \in FacadeDone : First401(g) /\ Cardinality(ResIndexes(log[g])) = 2
    /\ Credentials.ClientID \in ClientIDs
    /\ Credentials.Username \in Usernames
    /\ Credentials.Password \in Passwords

(* C13: a GetFeasibility call answered with status PROCESSING returns that *)
(* status and no error, and the answer is the last network call and the    *)
(* only successful resource request of the call.                           *)
C13_ProcessingVerbatim ==
    \A g \in FacadeCalls :
        req[g].name = "GetFeasibility" =>
            \A i \in ResIndexes(log[g]) :
                (Is2xx(log[g][i].resp) /\ log[g][i].resp.body = "PROCESSING") =>
                    /\ i = Len(log[g])
                    /\ pc[g] = "done"
                    /\ ret[g].err = NoErr
                    /\ ret[g].res = "PROCESSING"
                    /\ {j \in ResIndexes(log[g]) : Is2xx(log[g][j].resp)} = {i}

(* C13 witness: GetFeasibility returned PROCESSING after one request *)
C13_Witness ==
    \E g \in FacadeDone :
        /\ req[g].name = "GetFeasibility"
        /\ Cardinality(ResIndexes(log[g])) = 1
        /\ ret[g].res = "PROCESSING" /\ ret[g].err = NoErr

(* C14, as stated: a 401 on the first resource request is followed by an   *)
(* acquisition whatever the expiry of the cached token, and the retry      *)
(* carries the token of that acquisition's response, not the rejected one. *)
C14_RetryCarriesNewToken ==
    \A g \in FacadeCalls :
        First401(g) =>
            LET l == log[g]
                f == FirstRes(l)
            IN  /\ Len(l) >= f + 1 /\ IsAcq(l[f + 1])
                /\ Len(l) >= f + 2 =>
                     /\ l[f + 1].resp.abody.tok = "ok"
                     /\ l[f + 2].token = l[f + 1].resp.abody.tokv
                     /\ l[f + 2].token # l[f].token

(* C15: when the re-acquisition after a 401 fails, the call returns the    *)
(* acquisition's error, sends no second resource request and leaves the    *)
(* result object unpopulated.                                              *)
C15_ReacquisitionFailure ==
    \A g \in FacadeCalls :
        First401(g) =>
            LET l == log[g]
                f == FirstRes(l)
            IN  AcqFailed(l[f + 1]) =>
                   /\ Len(l) = f + 1
                   /\ pc[g] = "done"
                   /\ ret[g].err = FailureOf(l[f + 1], f + 1)
                   /\ ret[g].err.src # f
                   /\ ret[g].res = EmptyRes

(* C15 witness: the 401 came with a body that parses, the re-acquisition   *)
(* failed, and the result object is empty                                  *)
C15_Witness ==
    \E g \in FacadeDone :
        /\ First401(g)
        /\ Parses(log[g][FirstRes(log[g])].resp.body)
        /\ AcqFailed(log[g][Len(log[g])])
        /\ ret[g].res = EmptyRes /\ ret[g].err # NoErr

(* a call in flight keeps running and each of its network calls returns *)
Progress ==
    \E g \in Callers :
        \/ AcqRespond(g, AuthResponses)
        \/ Stamp(g)
        \/ ResRespond(g, ApiResponses)
        \/ Return(g)

SpecLive == Init /\ [][Next]_vars /\ WF_vars(Progress)

InFlight(g) == pc[g] \in {"acqwait", "stamp", "reswait"}

(* a call makes at most four network calls, and one whose two resource     *)
(* requests were both answered with 401 has returned that 401              *)
NoLoop ==
    \A g \in Callers :
        /\ Len(log[g]) <= 4
        /\ Cardinality({i \in ResIndexes(log[g]) : Is401(log[g][i])}) = 2 =>
             /\ pc[g] = "done"
             /\ Cardinality(AcqIndexes(log[g]) \cap
                            (FirstRes(log[g])..Len(log[g]))) = 1
             /\ ret[g].err = [type |-> "ErrorResponse", HTTPCode |-> 401,
                              src |-> Len(log[g])]

(* C16: every call that is in flight returns, given that each network call *)
(* returns (the calls are those of Main, the goroutine using the client);  *)
(* a call answered with 401 every time ends after one re-acquisition and   *)
(* one retry.                                                              *)
C16_Terminates ==
    /\ []NoLoop
    /\ InFlight(Main) ~> pc[Main] = "done"

(* C16 witness: both resource requests of a call were answered with 401    *)
(* and the call has returned                                               *)
C16_Witness ==
    \E g \in FacadeDone :
        /\ Cardinality({i \in ResIndexes(log[g]) : Is401(log[g][i])}) = 2
        /\ ret[g].returned /\ ret[g].err.HTTPCode = 401

(* C17: c.Auth changes only in a step of a token acquisition, and never in *)
(* a call that started with an unexpired token and got no 401.             *)
C17_TokenChangesOnlyInAcquisition ==
    [][Auth' # Auth =>
         \E g \in Callers :
             /\ pc[g] \in {"acqwait", "stamp"}
             /\ ~(kind[g] = "facade" /\ chk[g] = "valid" /\ ~First401(g))]_vars

(* C17 witness: a call that started with a valid token, got no 401 and has *)
(* returned, with the token it sent still cached                           *)
C17_Witness ==
    \E g \in FacadeDone :
        /\ chk[g] = "valid" /\ ~First401(g)
        /\ Len(log[g]) = 1
        /\ Auth.AccessToken = log[g][1].token /\ Auth.AccessToken > 0
        /\ Auth.Acquired # <<>>

(* C18, as stated: a token acquisition that fails leaves c.Auth as it was. *)
C18_FailedAcquisitionKeepsToken ==
    [][\A g \in Callers :
         (pc[g] = "acqwait" /\ pc'[g] = "done" /\ ret'[g].err # NoErr) =>
             Auth' = Auth]_vars

LastAcq(l) == CHOOSE i \in AcqIndexes(l) : \A j \in AcqIndexes(l) : j <= i

(* C19, as stated: once the last acquisition of a call has succeeded, the  *)
(* cached token string and expiry are those of its response and the        *)
(* timestamp is the one taken for it (a field the response does not have   *)
(* counts as empty).                                                       *)
C19_TokenFromOneAcquisition ==
    \A g \in Callers :
        (/\ AcqIndexes(log[g]) # {}
         /\ AcqSucceeded(log[g][LastAcq(log[g])])
         /\ pc[g] \in {"reswait", "done"}) =>
            LET e == log[g][LastAcq(log[g])].resp.abody
            IN  /\ Auth.AccessToken = e.tokv
                /\ Auth.ExpiresIn = e.expv
                /\ Auth.Acquired = <<tloc[g]>>

(* C20: GetAuth makes exactly one acquisition and no resource request,     *)
(* whatever the state of the cached token; it returns c.Auth as the        *)
(* acquisition left it on success, and the empty TokenResponse with the    *)
(* acquisition's error on failure.                                         *)
C20_GetAuth ==
    \A g \in Callers :
        kind[g] = "getauth" =>
            /\ Len(log[g]) = 1 /\ IsAcq(log[g][1])
            /\ pc[g] = "done" =>
                 IF AcqSucceeded(log[g][1])
                 THEN /\ ret[g].err = NoErr
                      /\ ret[g].auth = Auth
                      /\ Auth.Acquired = <<tloc[g]>>
                 ELSE /\ ret[g].err = FailureOf(log[g][1], 1)
                      /\ ret[g].auth = ZeroToken

(* C20 witness: GetAuth called while the cached token was still valid      *)
(* acquired a new token and returned it                                    *)
C20_Witness ==
    \E g \in Callers :
        /\ kind[g] = "getauth" /\ pc[g] = "done" /\ chk[g] = "valid"
        /\ log[g][1].resp.abody.tok = "ok"
        /\ ret[g].auth.AccessToken = log[g][1].resp.abody.tokv
        /\ ret[g].err = NoErr

====
